---- MODULE Spec2Model ----
(***************************************************************************)
(* RNAcommender: the dataset handler (rnacommender/data.py) and the        *)
(* factorization model (rnacommender/model.py) as state machines.          *)
(*                                                                         *)
(* Floating point numbers are modelled by integers; NaN is one reserved    *)
(* integer.  The process-wide numpy generator (a Mersenne twister) is      *)
(* modelled by a small linear congruential generator: what matters is that *)
(* every draw advances one shared state and that seeding resets it.        *)
(***************************************************************************)
EXTENDS Integers, Sequences, FiniteSets, TLC

(* ------------------------------ bounds ------------------------------- *)
\* most RNAs (rows of the interaction matrix)
MaxRna == 2
\* most proteins (columns of the interaction matrix)
MaxProt == 2
\* most cells of the interaction matrix (rows times columns)
MaxCells == 4
\* number of attributes of a feature vector in the feature files
NumAttr == 2
\* the generator's state before the call ranges over 0..MaxRng0
MaxRng0 == 1
\* modulus of the modelled generator
RngMod == 17
\* the fixed-point representation of 1.0
One == 32
\* size of the protein latent space (sp); the RNA latent space has one more
LatentSize == 1
\* most examples in a batch handed to the model
MaxBatch == 2
\* most train calls in a run
MaxTrain == 2

\* the seeds tried: the default of TrainDataset.__init__ and another one
Seeds == {1234, 0}

NaN == 0 - (2 ^ 20)
IsNaN(v) == v = NaN
\* the cells of an interaction matrix: unknown, negative, positive
Cells == {NaN, 0, 1}

(* ------------------------------ helpers ------------------------------ *)
Range(s) == {s[k] : k \in DOMAIN s}
Iota(k) == [e \in 1..k |-> e]
Reverse(s) == [e \in 1..Len(s) |-> s[Len(s) + 1 - e]]

(* ------------------------- fixed-point numbers ----------------------- *)
\* Floats are integers in units of 1/One. NaN absorbs. A division by zero is
\* only ever 0/0 here (the mean of an empty batch, the gradient of a norm that
\* is zero), which is NaN.
FAdd(a, b) == IF IsNaN(a) \/ IsNaN(b) THEN NaN ELSE a + b
FSub(a, b) == IF IsNaN(a) \/ IsNaN(b) THEN NaN ELSE a - b
FMul(a, b) == IF IsNaN(a) \/ IsNaN(b) THEN NaN ELSE (a * b) \div One
FDiv(a, b) == IF IsNaN(a) \/ IsNaN(b) \/ b = 0 THEN NaN ELSE (a * One) \div b
Min(a, b) == IF a < b THEN a ELSE b
Max(a, b) == IF a > b THEN a ELSE b
\* T.nnet.sigmoid, piecewise linear: 1/2 + x/4 cut to [0, 1]
Sigmoid(x) == IF IsNaN(x) THEN NaN ELSE Max(0, Min(One, (One \div 2) + (x \div 4)))
\* the derivative theano uses for it: s * (1 - s)
SigmoidGrad(s) == FMul(s, FSub(One, s))
\* a / k for a whole number k > 0
FDivInt(a, k) == IF IsNaN(a) THEN NaN ELSE a \div k
\* the square of a, in units of 1/One^2
RawSqr(a) == IF IsNaN(a) THEN NaN ELSE a * a
ISqrt(x) == CHOOSE r \in 0..x : r * r <= x /\ (r + 1) * (r + 1) > x
\* the square root of a sum of RawSqr, again in units of 1/One
FSqrt(x) == IF IsNaN(x) THEN NaN ELSE ISqrt(x)

\* f with every value computed once
Eager(f) == f @@ <<>>
\* the element of a set of one: Only({F(x) : x \in {E}}) is F(E) with E
\* computed once, whatever use F makes of it
Only(S) == CHOOSE y \in S : TRUE

RECURSIVE SumSeq(_)
SumSeq(q) == IF q = <<>> THEN 0 ELSE FAdd(Head(q), SumSeq(Tail(q)))

(* --------------------------- pandas frames --------------------------- *)
\* A DataFrame: row labels, column labels (unique), and one value vector per
\* column position.
Frame(index, columns, col) == [index |-> index, columns |-> columns, col |-> col]
\* DataFrame.shape
Shape0(df) == Len(df.index)
Shape1(df) == Len(df.columns)
HasColumn(df, label) == label \in Range(df.columns)
HasRow(df, label) == label \in Range(df.index)
PosOf(s, x) == CHOOSE k \in DOMAIN s : s[k] = x
\* df[label]: the column of that label
Column(df, label) == df.col[PosOf(df.columns, label)]
\* df[column][row]
Cell(df, column, row) == Column(df, column)[PosOf(df.index, row)]
\* df.loc[row].count(): the non-NaN cells of a row
RowCount(df, row) ==
  Cardinality({c \in DOMAIN df.columns : ~IsNaN(df.col[c][PosOf(df.index, row)])})

\* the feature vector the protein file holds for protein id, and the RNA file
\* for RNA id: different for different ids, and for a protein and an RNA
ProteinFeatures(id) == [a \in 1..NumAttr |-> 10 * id + a]
RnaFeatures(id) == [a \in 1..NumAttr |-> 100 * id + a]

(* ---------------------------- numpy.random --------------------------- *)
RngSeed(s) == s % RngMod
RngNext(s) == (5 * s + 3) % RngMod
\* rk_interval(max): a draw in 0..max
RandInterval(max, s) == RngNext(s) % (max + 1)

RECURSIVE ShuffleFrom(_, _, _)
\* numpy's shuffle: for i in reversed(range(1, n)): j = rk_interval(i);
\* x[i], x[j] = x[j], x[i]      (i and j count from 0)
ShuffleFrom(x, i, s) ==
  IF i < 1 THEN [x |-> x, rng |-> s]
  ELSE LET j == RandInterval(i, s)
       IN ShuffleFrom([x EXCEPT ![i + 1] = x[j + 1], ![j + 1] = x[i + 1]],
                      i - 1, RngNext(s))
Shuffle(x, s) == ShuffleFrom(x, Len(x) - 1, s)
\* numpy.random.permutation(range(k)): a shuffled copy of 0..k-1, here 1..k
Permutation(k, s) == Shuffle(Iota(k), s)

VARIABLES
  pyMajor,      \* the interpreter: 2 or 3 (decides what / does on two ints)
  npStrict,     \* numpy >= 1.12: an index array must be of integer type
  Fp, Fr, Y,    \* the frames of the three files / of the Dataset object
  seed, verbose,
  rng,          \* the state of the process-wide generator
  pc,           \* "files", "constructed", "loaded" or the name of the error raised
  dataset,      \* what load returned
  num_pos, num_neg, num_batches,
  to_predict,   \* PredictDataset: [given |-> FALSE] is None, else the list
  predicted     \* what PredictDataset.load returned

VARIABLES
  heap,         \* the arrays: address -> value; 1..5 are the shared variables' own
  returned,     \* the mapping the last get_params call gave its caller
  last,         \* the last call on the model: its name, input, output and error
  evalLog,      \* the last evaluation since the last train call
  trainCount,
  writes        \* how often each shared variable has been assigned

dataVars == <<pyMajor, npStrict, Fp, Fr, Y, seed, verbose, rng, pc, dataset,
              num_pos, num_neg, num_batches, to_predict, predicted>>
modelVars == <<heap, returned, last, evalLog, trainCount, writes>>
vars == <<dataVars, modelVars>>

(* ---------------------------- TrainDataset --------------------------- *)
\* numpy arrays of shape (nrows, ncols), and vectors as sequences
Zeros(k, c) == [nrows |-> k, ncols |-> c, rows |-> [e \in 1..k |-> [a \in 1..c |-> 0]]]
\* a[perm]
Take(a, perm) == [a EXCEPT !.rows = [e \in 1..Len(perm) |-> a.rows[perm[e]]],
                           !.nrows = Len(perm)]

\* data.py:165: len(self.Y.index) / 10 is floor division on Python 2 and true
\* division on Python 3; n % 0 raises ZeroDivisionError, n % 0.3 does not.
\* Only the printed progress depends on the value of the test.
ProgressRaises(len) == pyMajor = 2 /\ len \div 10 = 0

\* data.py:180-187 with the index left where it was: every row lands on the first
StoreRowNoAdvance(acc, protein, rna, label) ==
  [p |-> [acc.p EXCEPT !.rows[acc.index] = Column(Fp, protein)],
   r |-> [acc.r EXCEPT !.rows[acc.index] = Column(Fr, rna)],
   i |-> [acc.i EXCEPT ![acc.index] = label],
   index |-> acc.index,
   num_pos |-> IF label > 0 THEN acc.num_pos + 1 ELSE acc.num_pos,
   num_neg |-> IF label > 0 THEN acc.num_neg ELSE acc.num_neg + 1,
   err |-> "none"]
\* data.py:180-187: one labelled example into row index of p, r and i
StoreRow(acc, protein, rna, label) ==
  [p |-> [acc.p EXCEPT !.rows[acc.index] = Column(Fp, protein)],
   r |-> [acc.r EXCEPT !.rows[acc.index] = Column(Fr, rna)],
   i |-> [acc.i EXCEPT ![acc.index] = label],
   index |-> acc.index + 1,
   num_pos |-> IF label > 0 THEN acc.num_pos + 1 ELSE acc.num_pos,
   num_neg |-> IF label > 0 THEN acc.num_neg ELSE acc.num_neg + 1,
   err |-> "none"]

RECURSIVE FillRows(_, _, _)
\* data.py:177-187: the loop over the columns of Y, from position c on.
\* self.Fp[protein] and self.Fr[rna] raise KeyError for an unknown label.
FillRows(rna, c, acc) ==
  IF c > Len(Y.columns) \/ acc.err # "none" THEN acc
  ELSE LET protein == Y.columns[c] IN
    IF IsNaN(Cell(Y, protein, rna)) THEN FillRows(rna, c + 1, acc)
    ELSE IF ~HasColumn(Fp, protein) \/ ~HasColumn(Fr, rna)
      THEN [acc EXCEPT !.err = "KeyError"]
    ELSE IF acc.index > acc.p.nrows THEN [acc EXCEPT !.err = "IndexError"]
    ELSE FillRows(rna, c + 1, StoreRow(acc, protein, rna, Cell(Y, protein, rna)))

\* data.py:189-192 on numpy >= 1.12: permutation(range(0)) is an empty array of
\* dtype float64 (an empty sequence has no element to take a type from), and
\* p[perm] raises IndexError for an index array that is not of integer type;
\* older numpy casts it with a deprecation warning.
PermRaises(num_examples) == npStrict /\ num_examples = 0

\* data.py:170-195: the batch of one RNA. st is the loop's state
\* [dataset, num_pos, num_neg, num_batches, rng, err]; n counts from 1.
MakeBatch(n, st) ==
  LET rna == Y.index[n]
      num_examples == RowCount(Y, rna)
      filled == FillRows(rna, 1,
                  [p |-> Zeros(num_examples, Shape0(Fp)),
                   r |-> Zeros(num_examples, Shape0(Fr)),
                   i |-> [e \in 1..num_examples |-> 0],
                   index |-> 1, num_pos |-> st.num_pos, num_neg |-> st.num_neg,
                   err |-> "none"])
      perm == Permutation(num_examples, st.rng)
  IN IF filled.err # "none" THEN [st EXCEPT !.err = filled.err]
     ELSE IF PermRaises(num_examples)
       THEN [st EXCEPT !.err = "IndexError", !.num_pos = filled.num_pos,
                       !.num_neg = filled.num_neg, !.rng = perm.rng]
     ELSE [dataset |-> Append(st.dataset,
                         [p |-> Take(filled.p, perm.x),
                          r |-> Take(filled.r, perm.x),
                          i |-> [e \in 1..num_examples |-> filled.i[perm.x[e]]],
                          rna |-> n]),
           num_pos |-> filled.num_pos, num_neg |-> filled.num_neg,
           num_batches |-> st.num_batches + 1, rng |-> perm.rng, err |-> "none"]

RECURSIVE LoadLoop(_, _)
\* data.py:164-195: the loop over the rows of Y, from position n on
LoadLoop(n, st) ==
  IF n > Len(Y.index) \/ st.err # "none" THEN st
  ELSE IF ProgressRaises(Len(Y.index)) THEN [st EXCEPT !.err = "ZeroDivisionError"]
  ELSE LoadLoop(n + 1, MakeBatch(n, st))

\* data.py:197 left out: the list is shuffled with the generator as the loop left it
ReseedSkipped(s, generator) == generator
\* data.py:197: np.random.seed(self.seed)
Reseed(s, generator) == RngSeed(s)

\* data.py:155-209: TrainDataset.load as a function of the object and the generator
TrainLoad ==
  LET looped == LoadLoop(1, [dataset |-> <<>>, num_pos |-> 0, num_neg |-> 0,
                             num_batches |-> 0, rng |-> rng, err |-> "none"])
      shuffled == Shuffle(looped.dataset, Reseed(seed, looped.rng))
  IN IF looped.err # "none" THEN looped
     ELSE [looped EXCEPT !.dataset = shuffled.x, !.rng = shuffled.rng]

(* --------------------------- PredictDataset -------------------------- *)
NoList == [given |-> FALSE, list |-> <<>>]
NoOutput == [p |-> Zeros(0, 0), p_names |-> <<>>, r |-> Zeros(0, 0), r_names |-> <<>>,
             err |-> "none"]
NoFrame == Frame(<<>>, <<>>, <<>>)

\* df[list]: the columns of the list, in its order, a label as often as listed
Select(df, list) ==
  Frame(df.index, list, [c \in 1..Len(list) |-> Column(df, list[c])])
\* a label that heads several columns: df[label] is then a frame, not a vector
Duplicated(df, label) == Cardinality({c \in DOMAIN df.columns : df.columns[c] = label}) > 1

\* data.py:275-281 with the loops exchanged: RNA-major
PairAtRnaMajor(k, np, nr) == [protein |-> ((k - 1) % np) + 1, rna |-> ((k - 1) \div np) + 1]
\* data.py:275-281: the positions of the protein and the RNA of the k-th
\* iteration (k from 1) of the nested loops over np proteins and nr RNAs
PairAt(k, np, nr) == [protein |-> ((k - 1) \div nr) + 1, rna |-> ((k - 1) % nr) + 1]

\* data.py:267-286: PredictDataset.load. p[index] = self.Fp[protein] raises
\* ValueError when the label is duplicated (a frame does not fit in a row).
PredictLoad ==
  LET np == Shape1(Fp)
      nr == Shape1(Fr)
      num_examples == np * nr
      prot(k) == Fp.columns[PairAt(k, np, nr).protein]
      rna(k) == Fr.columns[PairAt(k, np, nr).rna]
  IN IF \E k \in 1..num_examples : Duplicated(Fp, prot(k))
       THEN [NoOutput EXCEPT !.err = "ValueError"]
     ELSE [p |-> [nrows |-> num_examples, ncols |-> Shape0(Fp),
                  rows |-> [k \in 1..num_examples |-> Column(Fp, prot(k))]],
           p_names |-> [k \in 1..num_examples |-> prot(k)],
           r |-> [nrows |-> num_examples, ncols |-> Shape0(Fr),
                  rows |-> [k \in 1..num_examples |-> Column(Fr, rna(k))]],
           r_names |-> [k \in 1..num_examples |-> rna(k)],
           err |-> "none"]

(* ------------------------------- Model ------------------------------- *)
\* model.py:16: the constructor's arguments
n == NumAttr
m == NumAttr + 1
sp == LatentSize
sr == LatentSize + 1
irange == One
learning_rate == One
lambda_reg == One

ParamNames == <<"Ap", "bp", "Ar", "br", "B">>
ParamSet == Range(ParamNames)

\* tensors: a vector is a sequence, a matrix a sequence of rows
IsMatrixName(name) == name \in {"Ap", "Ar", "B"}
\* elementwise a - c * b for one parameter
AxMinus(name, a, c, b) ==
  IF IsMatrixName(name)
    THEN Eager([j \in DOMAIN a |->
                 Eager([i \in DOMAIN a[j] |-> FSub(a[j][i], FMul(c, b[j][i]))])])
    ELSE Eager([j \in DOMAIN a |-> FSub(a[j], FMul(c, b[j]))])
ZeroLike(name, a) ==
  IF IsMatrixName(name) THEN [j \in DOMAIN a |-> [i \in DOMAIN a[j] |-> 0]]
  ELSE [j \in DOMAIN a |-> 0]

\* model.py:60-66: (.5 - np.random.rand(...)) * irange, drawn in this order
\* after np.random.seed(seed); s is the generator's state before the draw
RandValue(s) == FMul((One \div 2) - ((RngNext(s) * One) \div RngMod), irange)
RECURSIVE RngAfter(_, _)
RngAfter(s, k) == IF k = 0 THEN s ELSE RngAfter(RngNext(s), k - 1)
RandMatrix(s, rows, cols) ==
  [j \in 1..rows |-> [i \in 1..cols |-> RandValue(RngAfter(s, (j - 1) * cols + (i - 1)))]]
RandVector(s, len) == [j \in 1..len |-> RandValue(RngAfter(s, j - 1))]
InitParams(sd) ==
  LET s0 == RngSeed(sd)
      s1 == RngAfter(s0, sp * n)
      s2 == RngAfter(s1, sp)
      s3 == RngAfter(s2, sr * m)
      s4 == RngAfter(s3, sr)
  IN [Ap |-> RandMatrix(s0, sp, n), bp |-> RandVector(s1, sp),
      Ar |-> RandMatrix(s2, sr, m), br |-> RandVector(s3, sr),
      B |-> RandMatrix(s4, sp, sr)]

\* model.py:69, 71: sigmoid(dot(F, A.T) + b) for the k rows of F
Latent(F, A, bias, k, size, width) ==
  Eager([e \in 1..k |-> Eager([j \in 1..size |->
    Sigmoid(FAdd(SumSeq([i \in 1..width |-> FMul(F[e][i], A[j][i])]), bias[j]))])])
\* model.py:73: dot(P, B)
DotB(P, B, k) ==
  Eager([e \in 1..k |-> Eager([j \in 1..sr |->
    SumSeq([l \in 1..sp |-> FMul(P[e][l], B[l][j])])])])
\* model.py:73: y_hat from the two latent representations
Product(theta, P, R, k) ==
  Only({[P |-> P, R |-> R, PB |-> PB,
         y_hat |-> Eager([e \in 1..k |->
                     Sigmoid(SumSeq([j \in 1..sr |-> FMul(PB[e][j], R[e][j])]))])] :
        PB \in {DotB(P, theta.B, k)}})
\* model.py:69-73: the forward pass over the k rows of Fp and Fr
Forward(theta, fp, fr, k) ==
  Only({Product(theta, P, R, k) :
        P \in {Latent(fp, theta.Ap, theta.bp, k, sp, n)},
        R \in {Latent(fr, theta.Ar, theta.br, k, sr, m)}})

\* tensor.norm(2): the square root of the sum of the squares
MatrixNorm(a) ==
  FSqrt(SumSeq([j \in DOMAIN a |-> SumSeq([i \in DOMAIN a[j] |-> RawSqr(a[j][i])])]))
VectorNorm(a) == FSqrt(SumSeq([j \in DOMAIN a |-> RawSqr(a[j])]))
Norms(theta) ==
  [Ap |-> MatrixNorm(theta.Ap), bp |-> VectorNorm(theta.bp), Ar |-> MatrixNorm(theta.Ar),
   br |-> VectorNorm(theta.br), B |-> MatrixNorm(theta.B)]
\* model.py:81-83: the number of elements of each group
num_proteins == sp * n + sp
num_rnas == sr * m + sr
num_B == sp * sr
\* model.py:75-85
Regularization(theta) ==
  Only({FDivInt(FAdd(FAdd(FDivInt(FAdd(norm.Ap, norm.bp), num_proteins),
                          FDivInt(FAdd(norm.Ar, norm.br), num_rnas)),
                     FDivInt(norm.B, num_B)), 3) :
        norm \in {Norms(theta)}})

\* model.py:88-90: mean squared error plus the regularization
Cost(theta, y_hat, y, k) ==
  FAdd(FDiv(SumSeq([e \in 1..k |-> FMul(FSub(y[e], y_hat[e]), FSub(y[e], y_hat[e]))]),
            k * One),
       FMul(lambda_reg, Regularization(theta)))

\* the gradient of lambda_reg * norm / count / 3 in x: lambda_reg * x / norm / count / 3
RegGrad(x, norm, count) == FMul(lambda_reg, FDivInt(FDiv(x, norm), 3 * count))
\* the gradient of the cost in the argument of the last sigmoid
GradZ(f, y, k) ==
  Eager([e \in 1..k |->
    FMul(FDiv(FMul(2 * One, FSub(f.y_hat[e], y[e])), k * One), SigmoidGrad(f.y_hat[e]))])
\* ... in the arguments of the two inner sigmoids
GradP(theta, f, dz, k) ==
  Eager([e \in 1..k |-> Eager([l \in 1..sp |->
    FMul(FMul(dz[e], SumSeq([j \in 1..sr |-> FMul(theta.B[l][j], f.R[e][j])])),
         SigmoidGrad(f.P[e][l]))])])
GradR(f, dz, k) ==
  Eager([e \in 1..k |-> Eager([j \in 1..sr |->
    FMul(FMul(dz[e], f.PB[e][j]), SigmoidGrad(f.R[e][j]))])])
\* ... and in the five parameters
GradParams(theta, fp, fr, k, f, dz, dP, dR, norm) ==
  [Ap |-> Eager([l \in 1..sp |-> Eager([i \in 1..n |->
            FAdd(SumSeq([e \in 1..k |-> FMul(dP[e][l], fp[e][i])]),
                 RegGrad(theta.Ap[l][i], norm.Ap, num_proteins))])]),
   bp |-> Eager([l \in 1..sp |->
            FAdd(SumSeq([e \in 1..k |-> dP[e][l]]),
                 RegGrad(theta.bp[l], norm.bp, num_proteins))]),
   Ar |-> Eager([j \in 1..sr |-> Eager([i \in 1..m |->
            FAdd(SumSeq([e \in 1..k |-> FMul(dR[e][j], fr[e][i])]),
                 RegGrad(theta.Ar[j][i], norm.Ar, num_rnas))])]),
   br |-> Eager([j \in 1..sr |->
            FAdd(SumSeq([e \in 1..k |-> dR[e][j]]),
                 RegGrad(theta.br[j], norm.br, num_rnas))]),
   B |-> Eager([l \in 1..sp |-> Eager([j \in 1..sr |->
            FAdd(SumSeq([e \in 1..k |-> FMul(dz[e], FMul(f.P[e][l], f.R[e][j]))]),
                 RegGrad(theta.B[l][j], norm.B, num_B))])])]
\* the gradient from the forward pass f and the gradient dz at its output
GradFrom(theta, fp, fr, k, f, dz, norm) ==
  Only({GradParams(theta, fp, fr, k, f, dz, dP, dR, norm) :
        dP \in {GradP(theta, f, dz, k)}, dR \in {GradR(f, dz, k)}})
\* model.py:93: T.grad(cost, [Ap, bp, Ar, br, B]) by the chain rule
Grad(theta, fp, fr, y, k) ==
  Only({Only({GradFrom(theta, fp, fr, k, f, dz, norm) : dz \in {GradZ(f, y, k)}}) :
        f \in {Forward(theta, fp, fr, k)}, norm \in {Norms(theta)}})

\* What the callers hand to train, test and predict, by its shapes: Fp with k
\* rows and cp columns, Fr with kr rows and cr columns, ky labels.
InputMatrix(k, c, salt) ==
  Eager([e \in 1..k |-> Eager([i \in 1..c |-> ((e + salt * i) % 3) * One])])
Shapes(k, cp, cr, kr, ky) == [k |-> k, cp |-> cp, cr |-> cr, kr |-> kr, ky |-> ky]
FpOf(b) == InputMatrix(b.k, b.cp, 1)
FrOf(b) == InputMatrix(b.kr, b.cr, 2)
LabelsOf(b) == Eager([e \in 1..b.ky |-> IF e % 2 = 1 THEN One ELSE 0])
\* an empty batch (an RNA without labelled protein) and a full one
ValidBatches == {Shapes(k, n, m, k, k) : k \in {0, MaxBatch}}
\* one of the shapes wrong: the columns of Fp or of Fr, the rows of Fr, the
\* labels (one too many, one too few)
InvalidBatches ==
  LET k == MaxBatch
  IN {Shapes(k, n + 1, m, k, k), Shapes(k, n, m + 1, k, k), Shapes(k, n, m, k + 1, k),
      Shapes(k, n, m, k, k + 1), Shapes(k, n, m, k, k - 1)}
Batches == ValidBatches \cup InvalidBatches
EmptyBatch == Shapes(0, n, m, 0, 0)

\* model.py:69-73, 88: what the compiled graph refuses. dot(Fp, Ap.T) needs n
\* columns, dot(Fr, Ar.T) m columns; dot(P, B) * R and y - y_hat are elementwise
\* over dimensions that are not declared broadcastable, so lengths must agree.
ShapeError(b, withLabels) ==
  \/ b.cp # n
  \/ b.cr # m
  \/ b.k # b.kr
  \/ withLabels /\ b.ky # b.k

ArraysOf(b) == [Fp |-> FpOf(b), Fr |-> FrOf(b), y |-> LabelsOf(b)]
BatchGrad(theta, b) ==
  Only({Grad(theta, a.Fp, a.Fr, a.y, b.k) : a \in {ArraysOf(b)}})
\* model.py:73: y_hat for the rows of the batch
Predicted(theta, b) ==
  Only({Forward(theta, a.Fp, a.Fr, b.k).y_hat : a \in {ArraysOf(b)}})
\* model.py:104, 109: outputs=[y_hat, cost]
Outputs(theta, b) ==
  Only({<<y_hat, Cost(theta, y_hat, y, b.k)>> :
        y_hat \in {Predicted(theta, b)}, y \in {LabelsOf(b)}})

\* the value SGD gives the parameter name at theta
Stepped(theta, b, name) ==
  AxMinus(name, theta[name], learning_rate, BatchGrad(theta, b)[name])
\* model.py:94-98 with each pair computed after the pairs before it were assigned
SgdUpdatesSequential(theta, b) ==
  Only({Only({Only({Only({Only({
    <<[name |-> "Ap", value |-> t1.Ap], [name |-> "bp", value |-> t2.bp],
      [name |-> "Ar", value |-> t3.Ar], [name |-> "br", value |-> t4.br],
      [name |-> "B", value |-> t5.B]>> :
    t5 \in {[t4 EXCEPT !.B = Stepped(t4, b, "B")]}}) :
    t4 \in {[t3 EXCEPT !.br = Stepped(t3, b, "br")]}}) :
    t3 \in {[t2 EXCEPT !.Ar = Stepped(t2, b, "Ar")]}}) :
    t2 \in {[t1 EXCEPT !.bp = Stepped(t1, b, "bp")]}}) :
    t1 \in {[theta EXCEPT !.Ap = Stepped(theta, b, "Ap")]}})
\* model.py:93-98: the pairs (shared variable, new value), every new value an
\* expression of the values the function finds when it is called
SgdUpdates(theta, b) ==
  Only({<<[name |-> "Ap", value |-> AxMinus("Ap", theta.Ap, learning_rate, g.Ap)],
          [name |-> "bp", value |-> AxMinus("bp", theta.bp, learning_rate, g.bp)],
          [name |-> "Ar", value |-> AxMinus("Ar", theta.Ar, learning_rate, g.Ar)],
          [name |-> "br", value |-> AxMinus("br", theta.br, learning_rate, g.br)],
          [name |-> "B", value |-> AxMinus("B", theta.B, learning_rate, g.B)]>> :
        g \in {BatchGrad(theta, b)}})

\* model.py:107-109 compiled with updates=updates
TestUpdatesSgd(theta, b) == SgdUpdates(theta, b)
\* model.py:107-109 and 112-114: test and predict are compiled without updates
TestUpdates(theta, b) == <<>>

\* how often the updates assign a shared variable
Assigned(updates, name) == Cardinality({k \in DOMAIN updates : updates[k].name = name})
\* the value a shared variable holds after the updates: the last one assigned
\* to it, or the one it had
Updated(updates, name, old) ==
  IF Assigned(updates, name) = 0 THEN old
  ELSE LET k == CHOOSE k \in DOMAIN updates :
                  /\ updates[k].name = name
                  /\ \A k2 \in DOMAIN updates : updates[k2].name = name => k2 <= k
       IN updates[k].value
\* theano.function: the shared variables after a call that raised nothing
ApplyUpdates(theta, updates) ==
  [Ap |-> Updated(updates, "Ap", theta.Ap), bp |-> Updated(updates, "bp", theta.bp),
   Ar |-> Updated(updates, "Ar", theta.Ar), br |-> Updated(updates, "br", theta.br),
   B |-> Updated(updates, "B", theta.B)]

\* what a call returns and leaves behind when the graph ran through
Ran(theta, b, out, updates) ==
  [err |-> "none", out |-> out, theta |-> ApplyUpdates(theta, updates),
   updates |-> updates]
\* ... and when a node raised: nothing is assigned
Raised(theta) == [err |-> "ValueError", out |-> <<>>, theta |-> theta, updates |-> <<>>]

\* the update step taken before the inputs were checked
TrainFunctionEager(theta, b) ==
  IF ShapeError(b, TRUE)
    THEN Only({[Raised(theta) EXCEPT !.theta = ApplyUpdates(theta, updates)] :
               updates \in {SgdUpdates(theta, EmptyBatch)}})
    ELSE Only({Ran(theta, b, Outputs(theta, b), updates) :
               updates \in {SgdUpdates(theta, b)}})
\* model.py:102-105: self.train. Outputs and new values are computed from the
\* values found at the call; the shared variables are assigned after the graph
\* ran through, and not at all when a node raised.
TrainFunction(theta, b) ==
  IF ShapeError(b, TRUE) THEN Raised(theta)
  ELSE Only({Ran(theta, b, Outputs(theta, b), updates) :
             updates \in {SgdUpdates(theta, b)}})
\* model.py:107-109: self.test
TestFunction(theta, b) ==
  IF ShapeError(b, TRUE) THEN Raised(theta)
  ELSE Only({Ran(theta, b, Outputs(theta, b), updates) :
             updates \in {TestUpdates(theta, b)}})
\* model.py:112-114: self.predict
PredictFunction(theta, b) ==
  IF ShapeError(b, FALSE) THEN Raised(theta)
  ELSE Only({Ran(theta, b, <<Predicted(theta, b)>>, updates) :
             updates \in {TestUpdates(theta, b)}})

\* The arrays. A shared variable owns the array at SharedAddr; a copy made for
\* a caller lives at FreshAddr.
SharedAddr(name) == CHOOSE k \in DOMAIN ParamNames : ParamNames[k] = name
FreshAddr(name) == Len(ParamNames) + SharedAddr(name)
\* the values of the five shared variables
Theta == [Ap |-> heap[1], bp |-> heap[2], Ar |-> heap[3], br |-> heap[4], B |-> heap[5]]
Unallocated == <<>>

\* get_value(borrow=True): the shared variable's own array
GetValueBorrowed(name) == [addr |-> SharedAddr(name), value |-> heap[SharedAddr(name)]]
\* model.py:121: get_value() with borrow left at False: a copy in an array of its own
GetValue(name) == [addr |-> FreshAddr(name), value |-> heap[SharedAddr(name)]]
\* model.py:121: the dictionary get_params builds
ParamsDict ==
  [Ap |-> GetValue("Ap"), bp |-> GetValue("bp"), Ar |-> GetValue("Ar"),
   br |-> GetValue("br"), B |-> GetValue("B")]
\* the values a caller reads through the mapping it was given
ReturnedValues == [key \in DOMAIN returned.refs |-> heap[returned.refs[key]]]

NoCall == [op |-> "init", batch |-> EmptyBatch, out |-> <<>>, err |-> "none", again |-> FALSE]
NoEval == [valid |-> FALSE, batch |-> EmptyBatch, out |-> <<>>]
NoReturn == [valid |-> FALSE, refs |-> <<>>, touched |-> FALSE]

ModelIdle ==
  /\ heap = <<>>
  /\ returned = NoReturn
  /\ last = NoCall
  /\ evalLog = NoEval
  /\ trainCount = 0
  /\ writes = <<>>

DataIdle ==
  /\ pyMajor = 3 /\ npStrict = FALSE /\ verbose = FALSE /\ rng = 0
  /\ Fp = NoFrame /\ Fr = NoFrame /\ Y = NoFrame
  /\ pc = "idle" /\ dataset = <<>>
  /\ num_pos = 0 /\ num_neg = 0 /\ num_batches = 0
  /\ to_predict = NoList /\ predicted = NoOutput

\* the arrays of the five shared variables replaced by those of theta
StoreTheta(h, theta) ==
  [a \in DOMAIN h |-> IF a <= Len(ParamNames) THEN theta[ParamNames[a]] ELSE h[a]]

\* model.py:51-66: the shared variables after Model(n, m, sp, sr, seed=seed)
InitModel ==
  /\ DataIdle
  /\ seed \in Seeds
  /\ heap = StoreTheta([a \in 1..(2 * Len(ParamNames)) |-> Unallocated], InitParams(seed))
  /\ returned = NoReturn
  /\ last = NoCall
  /\ evalLog = NoEval
  /\ trainCount = 0
  /\ writes = [name \in ParamSet |-> 0]

\* model.py:102-105: a call of self.train
Train(b) ==
  /\ trainCount < MaxTrain
  /\ \E res \in {TrainFunction(Theta, b)} :
       /\ heap' = StoreTheta(heap, res.theta)
       /\ last' = [op |-> "train", batch |-> b, out |-> res.out, err |-> res.err,
                   again |-> FALSE]
       /\ trainCount' = IF res.err = "none" THEN trainCount + 1 ELSE trainCount
       /\ writes' = [name \in ParamSet |-> writes[name] + Assigned(res.updates, name)]
  /\ evalLog' = NoEval
  /\ UNCHANGED <<returned, dataVars>>

\* model.py:107-109: a call of self.test
Test(b) ==
  /\ \E res \in {TestFunction(Theta, b)} :
       /\ heap' = StoreTheta(heap, res.theta)
       /\ last' = [op |-> "test", batch |-> b, out |-> res.out, err |-> res.err,
                   again |-> evalLog.valid /\ evalLog.batch = b]
       /\ evalLog' = IF res.err = "none" THEN [valid |-> TRUE, batch |-> b, out |-> res.out]
                     ELSE evalLog
       /\ writes' = [name \in ParamSet |-> writes[name] + Assigned(res.updates, name)]
  /\ UNCHANGED <<returned, trainCount, dataVars>>

\* model.py:112-114: a call of self.predict (it takes no labels)
Predict(b) ==
  /\ b.ky = 0
  /\ \E res \in {PredictFunction(Theta, b)} :
       /\ heap' = StoreTheta(heap, res.theta)
       /\ last' = [op |-> "predict", batch |-> b, out |-> res.out,
                   err |-> res.err, again |-> FALSE]
       /\ writes' = [name \in ParamSet |-> writes[name] + Assigned(res.updates, name)]
  /\ UNCHANGED <<returned, evalLog, trainCount, dataVars>>

\* model.py:119-121: a call of get_params
GetParams ==
  /\ \E d \in {ParamsDict} :
       /\ heap' = [a \in DOMAIN heap |->
                     IF \E key \in DOMAIN d : d[key].addr = a
                       THEN d[CHOOSE key \in DOMAIN d : d[key].addr = a].value
                       ELSE heap[a]]
       /\ returned' = [valid |-> TRUE, refs |-> [key \in DOMAIN d |-> d[key].addr],
                       touched |-> FALSE]
  /\ last' = [NoCall EXCEPT !.op = "get_params"]
  /\ UNCHANGED <<evalLog, trainCount, writes, dataVars>>

\* the caller of get_params overwrites one of the arrays it was given (a[:] = 0)
Overwrite(key) ==
  /\ returned.valid
  /\ ~returned.touched
  /\ key \in DOMAIN returned.refs
  /\ heap' = [heap EXCEPT ![returned.refs[key]] = ZeroLike(key, @)]
  /\ returned' = [returned EXCEPT !.touched = TRUE]
  /\ last' = [NoCall EXCEPT !.op = "overwrite"]
  /\ UNCHANGED <<evalLog, trainCount, writes, dataVars>>

NextModel ==
  \/ \E b \in Batches : Train(b)
  \/ \E b \in Batches : Test(b)
  \/ \E b \in {[c EXCEPT !.ky = 0] : c \in Batches} : Predict(b)
  \/ GetParams
  \/ \E key \in ParamSet : Overwrite(key)
SpecModel == InitModel /\ [][NextModel]_vars

(* ------------------------------ actions ------------------------------ *)
\* the ids of a file with k columns, and the labels an interaction matrix may
\* carry for them: the same, in another order, or with its last one unknown
\* to the feature file
IdVariants(k) ==
  {Iota(k)} \cup (IF k >= 2 THEN {Reverse(Iota(k))} ELSE {})
            \cup (IF k >= 1 THEN {[Iota(k) EXCEPT ![k] = k + 1]} ELSE {})

\* the feature files of the proteins and of the RNAs with the ids in ids
ProteinFrame(ids) ==
  Frame(Iota(NumAttr), ids, [c \in 1..Len(ids) |-> ProteinFeatures(ids[c])])
RnaFrame(ids) ==
  Frame(Iota(NumAttr), ids, [c \in 1..Len(ids) |-> RnaFeatures(ids[c])])

\* The three files and the environment. Y has the shape the feature files ask
\* for, or one RNA or one protein less; the constructor reads no cell, so the
\* cells vary only where the shapes agree.
InitTrain ==
  /\ pyMajor \in {2, 3}
  /\ npStrict \in BOOLEAN
  /\ verbose \in BOOLEAN
  /\ seed \in Seeds
  /\ rng \in 0..MaxRng0
  /\ \E nr \in 0..MaxRna, np \in 1..MaxProt :
       \E rows \in 0..MaxRna, cols \in 1..MaxProt :
         /\ rows * cols <= MaxCells
         /\ (rows = nr /\ cols = np) \/ (rows = nr /\ cols + 1 = np)
              \/ (rows + 1 = nr /\ cols = np)
         /\ Fp = ProteinFrame(Iota(np))
         /\ Fr = RnaFrame(Iota(nr))
         /\ \E index \in IdVariants(rows), columns \in IdVariants(cols) :
              /\ index = Iota(rows) \/ columns = Iota(cols)
              /\ Y \in {Frame(index, columns, col) :
                          col \in [1..cols -> [1..rows ->
                                    IF rows = nr /\ cols = np THEN Cells ELSE {NaN}]]}
  /\ pc = "files"
  /\ dataset = <<>>
  /\ num_pos = 0 /\ num_neg = 0 /\ num_batches = 0
  /\ to_predict = NoList
  /\ predicted = NoOutput
  /\ ModelIdle

\* data.py:124-137: TrainDataset.__init__; the assertion compares the shapes only
TrainConstruct ==
  /\ pc = "files"
  /\ pc' = IF Shape1(Fp) = Shape1(Y) /\ Shape1(Fr) = Shape0(Y)
             THEN "constructed" ELSE "AssertionError"
  /\ UNCHANGED <<pyMajor, npStrict, Fp, Fr, Y, seed, verbose, rng, dataset,
                 num_pos, num_neg, num_batches, to_predict, predicted, modelVars>>

\* data.py:139-209: TrainDataset.load. The list and the counts (which are
\* printed at the end) exist for the caller only when load returned; the
\* generator keeps what the call drew from it either way.
Load ==
  /\ pc = "constructed"
  /\ LET out == TrainLoad IN
       /\ pc' = IF out.err = "none" THEN "loaded" ELSE out.err
       /\ dataset' = IF out.err = "none" THEN out.dataset ELSE <<>>
       /\ num_pos' = IF out.err = "none" THEN out.num_pos ELSE 0
       /\ num_neg' = IF out.err = "none" THEN out.num_neg ELSE 0
       /\ num_batches' = IF out.err = "none" THEN out.num_batches ELSE 0
       /\ rng' = out.rng
  /\ UNCHANGED <<pyMajor, npStrict, Fp, Fr, Y, seed, verbose, to_predict, predicted,
                 modelVars>>

NextTrain == TrainConstruct \/ Load
SpecTrain == InitTrain /\ [][NextTrain]_vars

RECURSIVE SeqsUpTo(_, _)
\* the sequences over S of length at most k
SeqsUpTo(S, k) ==
  IF k = 0 THEN {<<>>}
  ELSE LET shorter == SeqsUpTo(S, k - 1)
       IN shorter \cup {Append(q, x) : q \in shorter, x \in S}

InitPredict ==
  /\ pyMajor \in {2, 3}
  /\ npStrict \in BOOLEAN
  /\ verbose \in BOOLEAN
  /\ seed = 1234
  /\ rng = 0
  /\ \E nr \in 0..MaxRna, np \in 1..MaxProt :
       /\ Fp = ProteinFrame(Iota(np))
       /\ Fr = RnaFrame(Iota(nr))
       /\ to_predict \in {NoList} \cup
            {[given |-> TRUE, list |-> q] : q \in SeqsUpTo(1..(np + 1), MaxProt)}
  /\ Y = NoFrame
  /\ pc = "files"
  /\ dataset = <<>>
  /\ num_pos = 0 /\ num_neg = 0 /\ num_batches = 0
  /\ predicted = NoOutput
  /\ ModelIdle

\* data.py:241-245: PredictDataset.__init__; self.Fp[self.to_predict] raises
\* KeyError when the list names a protein the file does not hold
PredictConstruct ==
  /\ pc = "files"
  /\ IF ~to_predict.given THEN pc' = "constructed" /\ Fp' = Fp
     ELSE IF \E k \in DOMAIN to_predict.list : ~HasColumn(Fp, to_predict.list[k])
       THEN pc' = "KeyError" /\ Fp' = Fp
     ELSE pc' = "constructed" /\ Fp' = Select(Fp, to_predict.list)
  /\ UNCHANGED <<pyMajor, npStrict, Fr, Y, seed, verbose, rng, dataset,
                 num_pos, num_neg, num_batches, to_predict, predicted, modelVars>>

\* data.py:247-286: PredictDataset.load
PredictLoadCall ==
  /\ pc = "constructed"
  /\ LET out == PredictLoad IN
       /\ pc' = IF out.err = "none" THEN "loaded" ELSE out.err
       /\ predicted' = out
  /\ UNCHANGED <<pyMajor, npStrict, Fp, Fr, Y, seed, verbose, rng, dataset,
                 num_pos, num_neg, num_batches, to_predict, modelVars>>

NextPredict == PredictConstruct \/ PredictLoadCall
SpecPredict == InitPredict /\ [][NextPredict]_vars

(* ------------------------- TrainDataset.load ------------------------- *)
\* the positions of the columns of Y whose cell in the row of rna is not NaN
LabelledColumns(rna) ==
  {c \in DOMAIN Y.columns : ~IsNaN(Cell(Y, Y.columns[c], rna))}
\* the rows of batch b that carry the example (protein, rna)
RowsOf(b, protein, rna) ==
  {e \in 1..b.p.nrows : /\ b.p.rows[e] = ProteinFeatures(protein)
                        /\ b.r.rows[e] = RnaFeatures(rna)
                        /\ b.i[e] = Cell(Y, protein, rna)}
\* the positions in Y of the RNAs of the batches, in the order of the list
BatchOrder == [k \in DOMAIN dataset |-> dataset[k].rna]
\* load was called and returned or raised
LoadCalled == pc \notin {"files", "constructed", "AssertionError"}
\* an id of Y that the feature file of its axis does not hold
ForeignIds ==
  {id \in Range(Y.index) : ~HasColumn(Fr, id)}
    \cup {id \in Range(Y.columns) : ~HasColumn(Fp, id)}

\* C1: in the list load returned, the batch of every RNA has as many rows (in
\* p, in r and in i) as the RNA's row of Y has cells that are not NaN, and every
\* protein with such a cell has exactly one row, which holds the protein's
\* features, the RNA's features and the cell's label; so no row belongs to a
\* missing cell and none is doubled, whatever the permutation did.
C1_BatchCoversLabelledCells ==
  pc = "loaded" =>
    \A k \in DOMAIN dataset :
      LET b == dataset[k]
          rna == Y.index[b.rna]
      IN /\ b.p.nrows = Cardinality(LabelledColumns(rna))
         /\ b.r.nrows = b.p.nrows
         /\ Len(b.i) = b.p.nrows
         /\ DOMAIN b.p.rows = 1..b.p.nrows
         /\ DOMAIN b.r.rows = 1..b.p.nrows
         /\ \A c \in LabelledColumns(rna) :
              Cardinality(RowsOf(b, Y.columns[c], rna)) = 1
\* a returned list with a batch that skipped a missing cell and a batch of two
\* rows that the permutation exchanged
C1_Witness ==
  /\ pc = "loaded"
  /\ \E k \in DOMAIN dataset :
       /\ dataset[k].p.nrows = 1
       /\ Cardinality(LabelledColumns(Y.index[dataset[k].rna])) < Shape1(Y)
  /\ \E k \in DOMAIN dataset :
       /\ dataset[k].p.nrows = 2
       /\ dataset[k].p.rows[1] = ProteinFeatures(Y.columns[2])

\* C5: a call of load that raised neither for the progress test nor for an
\* unknown id returned, with one batch for every row of Y; the batch of a row
\* without labelled cell has 0 rows of the widths of the feature files and 0
\* labels, and the counts are those of the labelled cells.
C5_EmptyRowIsNoError ==
  (LoadCalled /\ pc \notin {"ZeroDivisionError", "KeyError"}) =>
    /\ pc = "loaded"
    /\ Len(dataset) = Shape0(Y)
    /\ num_batches = Shape0(Y)
    /\ Range(BatchOrder) = 1..Shape0(Y)
    /\ \A k \in DOMAIN dataset :
         LabelledColumns(Y.index[dataset[k].rna]) = {} =>
           /\ dataset[k].p = Zeros(0, Shape0(Fp))
           /\ dataset[k].r = Zeros(0, Shape0(Fr))
           /\ dataset[k].i = <<>>
    /\ num_pos + num_neg =
         SumSeq([k \in 1..Shape0(Y) |-> Cardinality(LabelledColumns(Y.index[k]))])

\* C6: the order of the batches in the list load returned is the shuffle of
\* 1..(number of RNAs) by the generator seeded with self.seed: it depends on
\* neither the cells of Y nor the state the generator had before the call.
C6_OrderFromSeedAlone ==
  pc = "loaded" => BatchOrder = Shuffle(Iota(Shape0(Y)), RngSeed(seed)).x
\* two batches whose order the shuffle exchanged, after a loop that drew from
\* the generator
C6_Witness ==
  /\ pc = "loaded"
  /\ BatchOrder = <<2, 1>>
  /\ \E k \in DOMAIN dataset : dataset[k].p.nrows = 2
  /\ rng # RngSeed(seed)

\* C7: with an id in Y (of an RNA or of a protein) that the feature file does
\* not hold, and at least one RNA, no call of load returns.
C7_ForeignIdFails ==
  (ForeignIds # {} /\ Shape0(Y) >= 1) => pc # "loaded"

\* C9: a call of load on a matrix with at least one RNA that raised for none
\* of the other reasons returned: the progress test raised nothing.
C9_ProgressNeverRaises ==
  (LoadCalled /\ Shape0(Y) >= 1 /\ pc \notin {"KeyError", "IndexError"}) =>
    pc = "loaded"

(* ------------------------ PredictDataset.load ------------------------ *)
\* C2: what load returned has (number of columns of Fp) x (number of columns
\* of Fr) rows in p, r and the two name arrays; the pair of the i-th protein and
\* the j-th RNA stands at position (i - 1) * (number of RNAs) + j, so the
\* proteins change slowest and every pair stands once; the k-th rows of p and r
\* are the features of the k-th names; and with a list given the proteins of
\* the object are those of the list, in its order.
C2_CrossJoinProteinMajor ==
  /\ (pc \in {"constructed", "loaded"} /\ to_predict.given) =>
       Fp.columns = to_predict.list
  /\ pc = "loaded" =>
       LET np == Shape1(Fp)
           nr == Shape1(Fr)
       IN /\ predicted.p.nrows = np * nr
          /\ predicted.r.nrows = np * nr
          /\ DOMAIN predicted.p.rows = 1..(np * nr)
          /\ DOMAIN predicted.r.rows = 1..(np * nr)
          /\ DOMAIN predicted.p_names = 1..(np * nr)
          /\ DOMAIN predicted.r_names = 1..(np * nr)
          /\ \A i \in 1..np, j \in 1..nr :
               /\ predicted.p_names[(i - 1) * nr + j] = Fp.columns[i]
               /\ predicted.r_names[(i - 1) * nr + j] = Fr.columns[j]
          /\ \A k \in 1..(np * nr) :
               /\ predicted.p.rows[k] = ProteinFeatures(predicted.p_names[k])
               /\ predicted.r.rows[k] = RnaFeatures(predicted.r_names[k])
\* the cross join of a list that reorders the two proteins with two RNAs
C2_Witness ==
  /\ pc = "loaded"
  /\ to_predict.given
  /\ to_predict.list = <<2, 1>>
  /\ Shape1(Fr) = 2
  /\ predicted.p_names = <<2, 2, 1, 1>>

(* ------------------------------- Model ------------------------------- *)
\* the shapes of b do not fit the model or each other
Mismatch(b) == b.cp # n \/ b.cr # m \/ b.ky # b.k \/ b.kr # b.k

\* C3: a call of test or predict leaves the five shared variables as they
\* were; a call of test on the batch of the last successful test, with no
\* call of train since, returns what that test returned; and a step that
\* changes a shared variable is a call of train.
C3_OnlyTrainChangesParams ==
  [][/\ last'.op \in {"test", "predict"} => Theta' = Theta
     /\ (last'.op = "test" /\ last'.again) =>
          (last'.err = "none" /\ last'.out = evalLog.out)
     /\ Theta' # Theta => last'.op = "train"]_vars
\* a test repeated on a batch with rows, after training changed the parameters
\* and other calls were made
C3_Witness ==
  /\ last.op = "test"
  /\ last.again
  /\ last.batch.k > 0
  /\ trainCount > 0
  /\ Theta # InitParams(seed)
  /\ returned.valid

\* C4: a call of train with a batch whose shapes do not fit raises, and the
\* five shared variables hold after it what they held before.
C4_FailedTrainChangesNothing ==
  [][(last'.op = "train" /\ Mismatch(last'.batch)) =>
       (last'.err # "none" /\ last'.out = <<>> /\ Theta' = Theta
          /\ writes' = writes)]_vars
\* a failed call of train on a model that an earlier call had trained
C4_Witness ==
  /\ last.op = "train"
  /\ Mismatch(last.batch)
  /\ last.err = "ValueError"
  /\ trainCount > 0
  /\ Theta # InitParams(seed)

\* C8: get_params hands out a mapping with the five names whose values are
\* the values of the shared variables and changes none of them; a call of train
\* leaves the values of a mapping handed out before as they were; overwriting
\* an array of the mapping leaves the shared variables as they were.
C8_GetParamsCopies ==
  [][/\ last'.op = "get_params" =>
          /\ returned'.valid
          /\ DOMAIN returned'.refs = ParamSet
          /\ ReturnedValues' = Theta
          /\ Theta' = Theta
     /\ (last'.op = "train" /\ returned.valid) =>
          (returned' = returned /\ ReturnedValues' = ReturnedValues)
     /\ last'.op = "overwrite" => Theta' = Theta]_vars
\* a snapshot that differs from the parameters: one of its arrays was
\* overwritten, and a call of train moved the parameters after it was taken
C8_Witness ==
  /\ returned.valid
  /\ returned.touched
  /\ last.op = "train"
  /\ last.err = "none"
  /\ \E key \in ParamSet :
       /\ ReturnedValues[key] # Theta[key]
       /\ ReturnedValues[key] # ZeroLike(key, Theta[key])

\* C10: a call of train that raised nothing assigned each of the five shared
\* variables once, the value it had before minus learning_rate times the
\* gradient at the five values before the call, and returned what test would
\* have returned on the same batch before the call.
C10_SimultaneousSgdStep ==
  [][(last'.op = "train" /\ last'.err = "none") =>
       /\ \E g \in {BatchGrad(Theta, last'.batch)} :
            \A name \in ParamSet :
              /\ Theta'[name] = AxMinus(name, Theta[name], learning_rate, g[name])
              /\ writes'[name] = writes[name] + 1
       /\ last'.out = TestFunction(Theta, last'.batch).out]_vars
\* a second successful step, on a batch with rows, that moved every parameter
C10_Witness ==
  /\ last.op = "train"
  /\ last.err = "none"
  /\ last.batch.k > 0
  /\ trainCount = 2
  /\ \A name \in ParamSet : writes[name] = 2 /\ Theta[name] # InitParams(seed)[name]

====
